---- MODULE Spec2Model ----
(***************************************************************************)
(* GeoViz NetCDF fragmenter (python-scripts/GeoViz_Compatibility_Tool.py). *)
(*                                                                         *)
(* Three specifications over one set of variables:                         *)
(*   Spec      one run of the tool, from main() to the end of the run      *)
(*   SpecSynth add_missing_sediment_variables applied once and then twice  *)
(*             to one fragment                                             *)
(*   SpecPlan  the partition arithmetic of create_fragments on a wide      *)
(*             range of trajectory counts and percentages                  *)
(*                                                                         *)
(* Numbers.  Python floats are modelled as exact rationals [num, den] with *)
(* den > 0.  Every percentage of the model is an integer or a half, so the *)
(* products and quotients the code forms are exact in binary floating      *)
(* point wherever they are integers, and np.ceil sees the same value as    *)
(* the exact quotient.  np.float32 storage of a synthesized value is not   *)
(* modelled: a stored value is the rational that was passed in.            *)
(* Memory is counted in bytes: the code divides both sides of every        *)
(* comparison by 1024**2, a common factor.                                 *)
(***************************************************************************)
EXTENDS Integers, Sequences, FiniteSets, TLC

(***************************************************************************)
(* Bounds of the model.                                                    *)
(***************************************************************************)
MaxTraj == 3
MaxTime == 2
ExampleTraj == 250
MaxPlanTraj == 12
MaxSynTraj == 2
ManyIndices == 101
ManyFragments == 1001

(***************************************************************************)
(* Rationals.                                                              *)
(***************************************************************************)
Rat(n, d) == [num |-> n, den |-> d]
RatLT(a, b) == a.num * b.den < b.num * a.den
RatLE(a, b) == a.num * b.den <= b.num * a.den
RatEq(a, b) == a.num * b.den = b.num * a.den
RatMax(a, b) == IF RatLT(a, b) THEN b ELSE a
RatMin(a, b) == IF RatLT(b, a) THEN b ELSE a
\* a / k for an integer k > 0
RatDivInt(a, k) == Rat(a.num, a.den * k)
\* int(np.ceil(a / b)) for integers a, b with b > 0
CeilDiv(a, b) == -((-a) \div b)

(***************************************************************************)
(* Datasets.  A dataset is [sizes, rows, variables, attrs]:                *)
(*   sizes      the sizes of the dimensions trajectory and time,           *)
(*   rows       the half-open range of source trajectories it holds,       *)
(*   variables  a function from variable names to arrays,                  *)
(*   attrs      a function from global attribute names to values.          *)
(* An array is [shape, dtype, value, attrs]; value is the constant the     *)
(* array was filled with, or SourceData for data read from the input.      *)
(***************************************************************************)
NumVal(r) == [tag |-> "num", str |-> "", num |-> r.num, den |-> r.den]
StrVal(s) == [tag |-> "str", str |-> s, num |-> 0, den |-> 1]
SourceData == [tag |-> "source", str |-> "", num |-> 0, den |-> 1]

DerivedVariables ==
    { "particulate_diameter", "particulate_density", "particulate_class",
      "particulate_size_class", "settled", "ocean_vertical_diffusivity",
      "ocean_mixed_layer_thickness" }

\* the particle classes and size classes interactive_mode offers
classes ==
    << "oil", "other", "bubble", "faecal_pellets", "copepod", "diatom_chain",
       "oily_gas" >>
sizes == << "small", "medium", "large" >>

\* xr.DataArray(np.full((n_traj, n_time), value, dtype), dims, attrs)
DataArray(n_traj, n_time, value, dtype, attrs) ==
    [shape |-> <<n_traj, n_time>>, dtype |-> dtype, value |-> value,
     attrs |-> attrs]

\* a variable of the input file
SourceArray(n_traj, n_time) ==
    DataArray(n_traj, n_time, SourceData, "float32", [units |-> "source"])

\* ds[name] = array
SetVariable(ds, name, array) ==
    [ds EXCEPT !.variables =
        [v \in (DOMAIN @) \cup {name} |-> IF v = name THEN array ELSE @[v]]]

\* ds.attrs[name] = value
SetAttr(ds, name, value) ==
    [ds EXCEPT !.attrs =
        [a \in (DOMAIN @) \cup {name} |-> IF a = name THEN value ELSE @[a]]]

\* the test dropped: every derived variable is written, present or not
NotInVariables_Always(ds, name) == TRUE

\* name not in ds.variables
NotInVariables(ds, name) == name \notin DOMAIN ds.variables

\* added_vars.append(...) moved out of the if: reported whether added or not
SynthStep_AlwaysReports(acc, name, array, detail) ==
    [ds |-> IF NotInVariables(acc.ds, name)
            THEN SetVariable(acc.ds, name, array) ELSE acc.ds,
     added_vars |-> Append(acc.added_vars, [name |-> name, detail |-> detail])]

\* one "if name not in ds.variables: ds[name] = ...; added_vars.append(...)"
SynthStep(acc, name, array, detail) ==
    IF NotInVariables(acc.ds, name)
    THEN [ds |-> SetVariable(acc.ds, name, array),
          added_vars |-> Append(acc.added_vars,
                                [name |-> name, detail |-> detail])]
    ELSE acc

\* if 'opendrift_class' not in ds.attrs: ds.attrs['opendrift_class'] = ...
UpdateAttributes(ds) ==
    IF "opendrift_class" \notin DOMAIN ds.attrs
    THEN SetAttr(ds, "opendrift_class", "SedimentDrift")
    ELSE ds

\* The dataset after the call (ds is mutated in place) and the returned list.
add_missing_sediment_variables(ds, particle_class, particle_size_class, particle_diameter, particle_density) ==
    LET n_traj == ds.sizes.trajectory
        n_time == ds.sizes.time
        s0 == [ds |-> ds, added_vars |-> <<>>]
        s1 == SynthStep(s0, "particulate_diameter",
                  DataArray(n_traj, n_time, NumVal(particle_diameter),
                      "float32",
                      [units |-> "m", long_name |-> "Particle diameter"]),
                  NumVal(particle_diameter))
        s2 == SynthStep(s1, "particulate_density",
                  DataArray(n_traj, n_time, NumVal(particle_density),
                      "float32",
                      [units |-> "kg m-3", long_name |-> "Particle density"]),
                  NumVal(particle_density))
        s3 == SynthStep(s2, "particulate_class",
                  DataArray(n_traj, n_time, StrVal(particle_class), "object",
                      [units |-> "",
                       classes |-> "oil,other,bubble,faecal_pellets,copepod,diatom_chain,oily_gas",
                       long_name |-> "Particle classification"]),
                  StrVal(particle_class))
        s4 == SynthStep(s3, "particulate_size_class",
                  DataArray(n_traj, n_time, StrVal(particle_size_class), "U6",
                      [units |-> "", classes |-> "small,medium,large",
                       long_name |-> "Particle size classification"]),
                  StrVal(particle_size_class))
        s5 == SynthStep(s4, "settled",
                  DataArray(n_traj, n_time, NumVal(Rat(0, 1)), "uint8",
                      [units |-> "1",
                       long_name |-> "Particle settled on seafloor"]),
                  NumVal(Rat(0, 1)))
        s6 == SynthStep(s5, "ocean_vertical_diffusivity",
                  DataArray(n_traj, n_time, NumVal(Rat(2, 100)), "float32",
                      [units |-> "m2/s",
                       long_name |-> "Ocean vertical diffusivity"]),
                  NumVal(Rat(2, 100)))
        s7 == SynthStep(s6, "ocean_mixed_layer_thickness",
                  DataArray(n_traj, n_time, NumVal(Rat(50, 1)), "float32",
                      [units |-> "m",
                       long_name |-> "Ocean mixed layer thickness"]),
                  NumVal(Rat(50, 1)))
    IN  [ds |-> UpdateAttributes(s7.ds), added_vars |-> s7.added_vars]

\* the slice taken but the dimension sizes of the source kept
isel_StaleSizes(ds, start_idx, end_idx) ==
    [sizes |-> ds.sizes,
     rows |-> <<ds.rows[1] + start_idx, ds.rows[1] + end_idx>>,
     variables |->
        [v \in DOMAIN ds.variables |->
            [ds.variables[v] EXCEPT
                !.shape = <<end_idx - start_idx, ds.variables[v].shape[2]>>]],
     attrs |-> ds.attrs]

\* ds.isel(trajectory=slice(start_idx, end_idx)), for 0 <= start <= end <= n
isel(ds, start_idx, end_idx) ==
    [sizes |-> [trajectory |-> end_idx - start_idx, time |-> ds.sizes.time],
     rows |-> <<ds.rows[1] + start_idx, ds.rows[1] + end_idx>>,
     variables |->
        [v \in DOMAIN ds.variables |->
            [ds.variables[v] EXCEPT
                !.shape = <<end_idx - start_idx, ds.variables[v].shape[2]>>]],
     attrs |-> ds.attrs]

(***************************************************************************)
(* estimate_memory_requirements.  available is what                        *)
(* psutil.virtual_memory().available returns, in bytes.                    *)
(***************************************************************************)
\* the share left over, 100 - percentage, taken for the fragment's share
frag_traj_Remainder(n_traj, percentage) ==
    CeilDiv(n_traj * (100 * percentage.den - percentage.num),
            100 * percentage.den)

frag_traj(n_traj, percentage) ==
    CeilDiv(n_traj * percentage.num, 100 * percentage.den)

frag_bytes(ds, percentage) ==
    frag_traj(ds.sizes.trajectory, percentage) * ds.sizes.time * 4
        * Cardinality(DOMAIN ds.variables)

\* (frag_bytes / 1024**2) * 3, in bytes
estimated(ds, percentage) == frag_bytes(ds, percentage) * 3

\* estimated_mb < available_mb * 0.5
is_safe(ds, percentage, available) ==
    2 * estimated(ds, percentage) < available

\* max(1.0, min(100.0, (target_mb / estimated_mb) * percentage)) with
\* target_mb = available_mb * 0.3; evaluated only when not is_safe, and then
\* estimated > 0 because available > 0
recommended_percentage(ds, percentage, available) ==
    IF is_safe(ds, percentage, available)
    THEN percentage
    ELSE RatMax(Rat(1, 1),
             RatMin(Rat(100, 1),
                 Rat(3 * available * percentage.num,
                     10 * estimated(ds, percentage) * percentage.den)))

estimate_memory_requirements(ds, percentage, available) ==
    [estimated |-> estimated(ds, percentage),
     available |-> available,
     is_safe |-> is_safe(ds, percentage, available),
     recommended_percentage |->
        recommended_percentage(ds, percentage, available)]

(***************************************************************************)
(* The partition arithmetic of create_fragments.                           *)
(***************************************************************************)
Min(a, b) == IF a < b THEN a ELSE b

trajectories_per_fragment(n_traj, percentage) ==
    CeilDiv(n_traj * percentage.num, 100 * percentage.den)

\* floor(n_traj / per_fragment) + 1 in place of the ceiling
num_fragments_FloorPlusOne(n_traj, per_fragment) ==
    (n_traj \div per_fragment) + 1

num_fragments(n_traj, per_fragment) == CeilDiv(n_traj, per_fragment)

start_idx(i, per_fragment) == i * per_fragment

\* the min(..., n_traj) forgotten
end_idx_Unclamped(i, per_fragment, n_traj) == (i + 1) * per_fragment

end_idx(i, per_fragment, n_traj) == Min((i + 1) * per_fragment, n_traj)

\* percentage <= 0 or percentage > 100
InvalidPercentage(percentage) ==
    \/ RatLE(percentage, Rat(0, 1))
    \/ RatLT(Rat(100, 1), percentage)

\* Lines 313-317 of create_fragments: the percentage check raises ValueError;
\* n_traj / trajectories_per_fragment raises ZeroDivisionError when
\* trajectories_per_fragment is 0; otherwise the plan.
Planned(n_traj, percentage) ==
    LET per_fragment == trajectories_per_fragment(n_traj, percentage)
    IN  IF InvalidPercentage(percentage)
        THEN [raised |-> "ValueError", per_fragment |-> 0, total |-> 0]
        ELSE IF per_fragment = 0
        THEN [raised |-> "ZeroDivisionError", per_fragment |-> 0, total |-> 0]
        ELSE [raised |-> "", per_fragment |-> per_fragment,
              total |-> num_fragments(n_traj, per_fragment)]

(***************************************************************************)
(* Text.  A string the code inspects is a sequence of characters.          *)
(***************************************************************************)
Whitespace == {" ", "\t"}

RECURSIVE lstrip(_)
lstrip(s) ==
    IF s # <<>> /\ Head(s) \in Whitespace THEN lstrip(Tail(s)) ELSE s

RECURSIVE rstrip(_)
rstrip(s) ==
    IF s # <<>> /\ s[Len(s)] \in Whitespace
    THEN rstrip(SubSeq(s, 1, Len(s) - 1))
    ELSE s

strip(s) == rstrip(lstrip(s))

lower(s) ==
    [k \in 1..Len(s) |->
        CASE s[k] = "Y" -> "y"
          [] s[k] = "N" -> "n"
          [] s[k] = "E" -> "e"
          [] s[k] = "S" -> "s"
          [] OTHER -> s[k]]

\* f"{n:03d}" for n >= 0, as a sequence of digit characters
DigitChar(d) == <<"0", "1", "2", "3", "4", "5", "6", "7", "8", "9">>[d + 1]

RECURSIVE Digits(_)
Digits(n) ==
    IF n < 10 THEN <<DigitChar(n)>>
    ELSE Append(Digits(n \div 10), DigitChar(n % 10))

RECURSIVE ZeroPad(_, _)
ZeroPad(s, width) == IF Len(s) >= width THEN s ELSE ZeroPad(<<"0">> \o s, width)

\* a field of exactly three digits: the digits above the hundreds dropped
Format03d_FixedWidth(n) == ZeroPad(Digits(n % 1000), 3)

\* {n:03d}: at least three digits, zero-padded
Format03d(n) == ZeroPad(Digits(n), 3)

\* A path is a sequence of tokens: directory tokens end in "/", ".nc" is
\* the extension.
InputFile == << "run/", "data", ".nc" >>

\* input_file.replace('.nc', '')
DefaultPrefix(input_file) == SelectSeq(input_file, LAMBDA t : t # ".nc")

\* os.path.basename(input_file)
basename(input_file) ==
    SelectSeq(input_file, LAMBDA t : t \notin {"run/", "out/"})

\* the numbers written without their padding
OutputFile_Unpadded(output_prefix, fragment_num, total) ==
    output_prefix \o <<"_fragment_">> \o Digits(fragment_num)
        \o <<"_of_">> \o Digits(total) \o <<".nc">>

\* f"{output_prefix}_fragment_{fragment_num:03d}_of_{num_fragments:03d}.nc"
OutputFile(output_prefix, fragment_num, total) ==
    output_prefix \o <<"_fragment_">> \o Format03d(fragment_num)
        \o <<"_of_">> \o Format03d(total) \o <<".nc">>


(***************************************************************************)
(* Inputs of a run: the command line, the input file, the answers typed    *)
(* at the prompts, the memory psutil reports.                              *)
(***************************************************************************)
Percentages ==
    { Rat(-10, 1), Rat(0, 1), Rat(1, 2), Rat(1, 1), Rat(40, 1), Rat(100, 1),
      Rat(150, 1) }

\* sys.argv: script, INPUT.nc, PERCENTAGE, PREFIX, CLASS, SIZE, DIAMETER_MM,
\* DENSITY (module docstring, Quick Reference)
FullCommandLine(percentage) ==
    << "GeoViz_Compatibility_Tool.py", InputFile, percentage, <<"out/", "frag">>,
       "oil", "large", Rat(5, 1), Rat(900, 1) >>

ArgCounts == {3, 4, 6, 8}

CommandLines ==
    { <<"GeoViz_Compatibility_Tool.py">>,
      <<"GeoViz_Compatibility_Tool.py", InputFile>> }
    \cup { SubSeq(FullCommandLine(p), 1, k) : p \in Percentages, k \in ArgCounts }

\* the variables an input file holds besides the derived ones
BaseVariables == {"lon", "lat"}

SourcePresent ==
    { {}, DerivedVariables, {"particulate_class", "ocean_vertical_diffusivity"} }

SourceAttrs ==
    { [Conventions |-> "CF-1.6"],
      [Conventions |-> "CF-1.6", opendrift_class |-> "OceanDrift"] }

Dataset(n_traj, n_time, names, attrs) ==
    [sizes |-> [trajectory |-> n_traj, time |-> n_time],
     rows |-> <<0, n_traj>>,
     variables |-> [v \in names |-> SourceArray(n_traj, n_time)],
     attrs |-> attrs]

Sources ==
    { Dataset(n, t, BaseVariables \cup present, attrs) :
        n \in 0..MaxTraj, t \in 1..MaxTime, present \in SourcePresent,
        attrs \in SourceAttrs }

\* a larger input with none of the derived variables, fragmented at 40%
ExampleSource ==
    Dataset(ExampleTraj, MaxTime, BaseVariables, [Conventions |-> "CF-1.6"])
ExampleCommandLine == SubSeq(FullCommandLine(Rat(40, 1)), 1, 3)

\* the same input at 40%, at 10% (fragment numbers of two digits) and at
\* 0.5% (of three digits)
ExampleCommandLines ==
    { ExampleCommandLine,
      SubSeq(FullCommandLine(Rat(10, 1)), 1, 3),
      SubSeq(FullCommandLine(Rat(1, 2)), 1, 3) }

\* psutil.virtual_memory().available, in bytes; a running interpreter has
\* some memory available
AvailableChoices == {1, 200, 1000000}

\* what the user types at "Continue anyway? (y/n) [n]: "
Responses ==
    { <<>>, <<"y">>, <<"Y">>, <<" ", "y", " ">>, <<"n">>, <<"y", "e", "s">> }

\* what the user types at the prompts of interactive_mode; a number typed
\* is given as the value float() makes of it
NoAnswer == <<>>
NoSession ==
    [percentage |-> NoAnswer, add_vars |-> <<>>, class |-> <<>>, size |-> <<>>,
     diameter |-> NoAnswer, density |-> NoAnswer, prefix |-> <<>>,
     proceed |-> <<>>]
Sessions ==
    { [percentage |-> pct, add_vars |-> a.add_vars, class |-> a.class,
       size |-> a.size, diameter |-> a.diameter, density |-> a.density,
       prefix |-> a.prefix, proceed |-> a.proceed] :
        pct \in {NoAnswer} \cup { <<q>> : q \in Percentages },
        a \in
          { [add_vars |-> <<>>, class |-> <<>>, size |-> <<>>,
             diameter |-> NoAnswer, density |-> NoAnswer, prefix |-> <<>>,
             proceed |-> <<>>],
            [add_vars |-> <<"Y">>, class |-> <<"1">>, size |-> <<"3">>,
             diameter |-> <<Rat(5, 1)>>, density |-> <<Rat(900, 1)>>,
             prefix |-> <<"out/", "frag">>, proceed |-> <<"y">>],
            [add_vars |-> <<"y">>, class |-> <<"9">>, size |-> <<>>,
             diameter |-> <<Rat(5, 1)>>, density |-> NoAnswer,
             prefix |-> <<>>, proceed |-> <<>>],
            [add_vars |-> <<"N">>, class |-> <<>>, size |-> <<>>,
             diameter |-> NoAnswer, density |-> NoAnswer, prefix |-> <<>>,
             proceed |-> <<>>],
            [add_vars |-> <<>>, class |-> <<>>, size |-> <<>>,
             diameter |-> NoAnswer, density |-> NoAnswer, prefix |-> <<>>,
             proceed |-> <<"n">>] } }

\* choice.isdigit()
isdigit(s) ==
    /\ s # <<>>
    /\ \A k \in 1..Len(s) :
          s[k] \in {"0", "1", "2", "3", "4", "5", "6", "7", "8", "9"}

\* int(choice), for a string of digits
RECURSIVE int(_)
int(s) ==
    IF s = <<>> THEN 0
    ELSE 10 * int(SubSeq(s, 1, Len(s) - 1))
         + (CHOOSE d \in 0..9 : DigitChar(d) = s[Len(s)])

(***************************************************************************)
(* GeoViz_Validator.py.  A message is a pair of strings, what is said and   *)
(* what about; the category's prefix is put in front by the add_ methods.   *)
(***************************************************************************)
\* ValidationResult()
ValidationResult ==
    [errors |-> <<>>, warnings |-> <<>>, missing |-> <<>>, info |-> <<>>,
     passed |-> <<>>]

add_error(result, message) ==
    [result EXCEPT !.errors = Append(@, <<"ERROR">> \o message)]

add_warning(result, message) ==
    [result EXCEPT !.warnings = Append(@, <<"WARNING">> \o message)]

add_missing(result, message) ==
    [result EXCEPT !.missing = Append(@, <<"MISSING">> \o message)]

add_info(result, message) ==
    [result EXCEPT !.info = Append(@, <<"INFO">> \o message)]

add_pass(result, message) ==
    [result EXCEPT !.passed = Append(@, <<"PASS">> \o message)]

\* warnings counted as critical too
is_valid_NoWarnings(result) ==
    Len(result.errors) = 0 /\ Len(result.warnings) = 0

is_valid(result) == Len(result.errors) = 0

has_all_required(result) == Len(result.missing) = 0

\* the add_ method of a category
Add(category, result, message) ==
    CASE category = "error" -> add_error(result, message)
      [] category = "warning" -> add_warning(result, message)
      [] category = "missing" -> add_missing(result, message)
      [] category = "info" -> add_info(result, message)
      [] category = "pass" -> add_pass(result, message)

\* "for name in names: if name in present: add_pass(...) else: add_<absent>(...)"
RECURSIVE CheckPresence(_, _, _, _)
CheckPresence(result, names, present, absent) ==
    IF names = <<>> THEN result
    ELSE CheckPresence(
             IF Head(names) \in present
             THEN add_pass(result, <<"present", Head(names)>>)
             ELSE Add(absent, result, <<"not present", Head(names)>>),
             Tail(names), present, absent)

\* what is at filepath: nothing, a directory, or a file that
\* xr.open_dataset can or cannot read
endswith_nc(filepath) == filepath # <<>> /\ filepath[Len(filepath)] = ".nc"

validate_file_access(filepath, file) ==
    IF file.kind = "absent"
    THEN add_error(ValidationResult, <<"File not found", "filepath">>)
    ELSE IF file.kind # "file"
    THEN add_error(ValidationResult, <<"Path is not a file", "filepath">>)
    ELSE LET result ==
                 IF ~endswith_nc(filepath)
                 THEN add_warning(ValidationResult,
                                  <<"File does not have .nc extension", "filepath">>)
                 ELSE ValidationResult
         IN  add_pass(add_info(result, <<"File size", "filepath">>),
                      <<"File exists and is accessible", "filepath">>)

required_dims == <<"trajectory", "time">>

\* "if n < 1: add_error ... elif n < 10: add_warning"
ReasonableSize(result, n, dim) ==
    IF n < 1 THEN add_error(result, <<"None in dataset", dim>>)
    ELSE IF n < 10 THEN add_warning(result, <<"Very few", dim>>)
    ELSE result

validate_dimensions(ds) ==
    LET result ==
            CheckPresence(ValidationResult, required_dims, DOMAIN ds.sizes,
                          "error")
    IN  IF {"trajectory", "time"} \subseteq DOMAIN ds.sizes
        THEN ReasonableSize(
                 ReasonableSize(
                     add_info(result, <<"Total data points", "dataset">>),
                     ds.sizes["trajectory"], "trajectory"),
                 ds.sizes["time"], "time")
        ELSE result

required_vars ==
    << "particulate_diameter", "particulate_density", "particulate_class",
       "particulate_size_class", "settled" >>

optional_vars ==
    << "ocean_vertical_diffusivity", "ocean_mixed_layer_thickness" >>

validate_sediment_variables(ds) ==
    CheckPresence(
        CheckPresence(ValidationResult, required_vars, DOMAIN ds.variables,
                      "missing"),
        optional_vars, DOMAIN ds.variables, "info")

common_vars == << "lon", "lat", "z", "status" >>

validate_trajectory_variables(ds) ==
    CheckPresence(ValidationResult, common_vars, DOMAIN ds.variables,
                  "warning")

recommended_attrs ==
    << "title", "institution", "source", "history", "Conventions" >>

validate_attributes(ds) ==
    LET result ==
            IF "opendrift_class" \in DOMAIN ds.attrs
            THEN LET passed ==
                         add_pass(ValidationResult,
                                  <<"OpenDrift class", "opendrift_class">>)
                 IN  IF ds.attrs["opendrift_class"] # "SedimentDrift"
                     THEN add_info(passed,
                              <<"expected SedimentDrift", "opendrift_class">>)
                     ELSE passed
            ELSE add_warning(ValidationResult,
                             <<"Missing attribute", "opendrift_class">>)
    IN  CheckPresence(result, recommended_attrs, DOMAIN ds.attrs, "info")

\* min(100, n)
sample_size(n) == Min(100, n)

\* the sets of d elements of S
RECURSIVE Drops(_, _)
Drops(S, d) ==
    IF d = 0 THEN {{}}
    ELSE UNION { { X \cup {x} : X \in Drops({ y \in S : y > x }, d - 1) } :
                 x \in S }

\* np.random.choice(n, sample, replace=False) when n > sample, np.arange(n)
\* otherwise: the index sets it can return
Indices(n) ==
    IF n > sample_size(n)
    THEN { (0..(n - 1)) \ X : X \in Drops(0..(n - 1), n - sample_size(n)) }
    ELSE { 0..(n - 1) }

\* ds.sizes.get(dim, 0)
sizes_get(ds, dim) == IF dim \in DOMAIN ds.sizes THEN ds.sizes[dim] ELSE 0

\* A coordinate array holds one value everywhere but at one cell.  A value
\* is a whole number of degrees or NaN.
Degrees(v) == [nan |-> FALSE, v |-> v]
NaN == [nan |-> TRUE, v |-> 0]
ValueAt(array, t, k) == IF array.at = <<t, k>> THEN array.value ELSE array.default

\* ds[name].isel(trajectory=traj_indices, time=time_indices).values
SampleValues(array, traj_indices, time_indices) ==
    { ValueAt(array, t, k) : t \in traj_indices, k \in time_indices }

SetMin(S) == CHOOSE x \in S : \A y \in S : x <= y
SetMax(S) == CHOOSE x \in S : \A y \in S : x >= y

\* a range violation reported as an error
CoordinateRange_AsError(result, ds, name, lo, hi, traj_indices, time_indices) ==
    IF name \notin DOMAIN ds.variables THEN result
    ELSE IF ~({"trajectory", "time"} \subseteq DOMAIN ds.sizes)
    THEN add_warning(result, <<"Could not validate", name>>)
    ELSE LET sample == SampleValues(ds.variables[name], traj_indices, time_indices)
             valid == { x.v : x \in { y \in sample : ~y.nan } }
         IN  IF valid = {} THEN result
             ELSE IF SetMin(valid) < lo \/ SetMax(valid) > hi
             THEN add_error(result, <<"Sample values outside valid range", name>>)
             ELSE add_pass(result, <<"Sample range valid", name>>)

\* "if name in ds.variables: try: ... except Exception: add_warning(...)" of
\* validate_data_integrity; isel raises when the dataset lacks a dimension
CoordinateRange(result, ds, name, lo, hi, traj_indices, time_indices) ==
    IF name \notin DOMAIN ds.variables THEN result
    ELSE IF ~({"trajectory", "time"} \subseteq DOMAIN ds.sizes)
    THEN add_warning(result, <<"Could not validate", name>>)
    ELSE LET sample == SampleValues(ds.variables[name], traj_indices, time_indices)
             valid == { x.v : x \in { y \in sample : ~y.nan } }
         IN  IF valid = {} THEN result
             ELSE IF SetMin(valid) < lo \/ SetMax(valid) > hi
             THEN add_warning(result, <<"Sample values outside valid range", name>>)
             ELSE add_pass(result, <<"Sample range valid", name>>)

validate_data_integrity(ds, quick, traj_indices, time_indices) ==
    IF quick
    THEN add_info(ValidationResult, <<"Skipping data sampling", "--quick">>)
    ELSE add_info(
             CoordinateRange(
                 CoordinateRange(
                     add_info(ValidationResult, <<"Sampling data", "dataset">>),
                     ds, "lon", -180, 180, traj_indices, time_indices),
                 ds, "lat", -90, 90, traj_indices, time_indices),
             <<"Data integrity checked", "sample">>)

\* the checks list of validate_dataset, in its order
checks ==
    << "Dimensions", "SedimentDrift Variables", "Trajectory Variables",
       "Attributes", "Data Integrity" >>

\* check_func(ds)
check_func(check_name, ds, quick, traj_indices, time_indices) ==
    CASE check_name = "Dimensions" -> validate_dimensions(ds)
      [] check_name = "SedimentDrift Variables" -> validate_sediment_variables(ds)
      [] check_name = "Trajectory Variables" -> validate_trajectory_variables(ds)
      [] check_name = "Attributes" -> validate_attributes(ds)
      [] check_name = "Data Integrity" ->
            validate_data_integrity(ds, quick, traj_indices, time_indices)

\* the five extend calls
Merge(overall, check_result) ==
    [passed |-> overall.passed \o check_result.passed,
     info |-> overall.info \o check_result.info,
     warnings |-> overall.warnings \o check_result.warnings,
     missing |-> overall.missing \o check_result.missing,
     errors |-> overall.errors \o check_result.errors]

(***************************************************************************)
(* Inputs of a validator run: the command line, what is at the path, and    *)
(* the checks that raise on the dataset.  Every word of the command line    *)
(* is a sequence of tokens.                                                 *)
(***************************************************************************)
ValidatorScript == << "GeoViz_Validator.py" >>
OtherFile == << "run/", "data", ".dat" >>

ValidatorCommandLines ==
    { << ValidatorScript, InputFile >>,
      << ValidatorScript, InputFile, <<"--quick">> >>,
      << ValidatorScript, InputFile, <<"-v">>, <<"-q">> >> }

PlainArray == [default |-> Degrees(0), at |-> <<-1, -1>>, value |-> Degrees(0)]

\* lon and lat: in range; the scenario's -200 among 170s; out of range at
\* the last cell; on the bounds; NaN
CoordinateData(n_traj, n_time) ==
    { [lon |-> [default |-> Degrees(170), at |-> <<-1, -1>>, value |-> Degrees(170)],
       lat |-> [default |-> Degrees(45), at |-> <<-1, -1>>, value |-> Degrees(45)]],
      [lon |-> [default |-> Degrees(170), at |-> <<0, 0>>, value |-> Degrees(-200)],
       lat |-> [default |-> Degrees(45), at |-> <<-1, -1>>, value |-> Degrees(45)]],
      [lon |-> [default |-> Degrees(0), at |-> <<n_traj - 1, n_time - 1>>, value |-> Degrees(181)],
       lat |-> [default |-> Degrees(0), at |-> <<0, 0>>, value |-> Degrees(91)]],
      [lon |-> [default |-> Degrees(180), at |-> <<0, 0>>, value |-> Degrees(-180)],
       lat |-> [default |-> Degrees(-90), at |-> <<0, 0>>, value |-> Degrees(90)]],
      [lon |-> [default |-> NaN, at |-> <<-1, -1>>, value |-> NaN],
       lat |-> [default |-> Degrees(-91), at |-> <<0, 0>>, value |-> NaN]] }

ValidatorDataset(dims, names, attrs, data) ==
    [sizes |-> dims,
     variables |->
        [v \in names |->
            IF v = "lon" THEN data.lon ELSE IF v = "lat" THEN data.lat
            ELSE PlainArray],
     attrs |-> attrs]

\* the scenario's variables: all but particulate_diameter and settled
ScenarioVariables ==
    (DerivedVariables \ {"particulate_diameter", "settled"})
        \cup {"lon", "lat", "z", "status"}

ValidatorVariables ==
    { DerivedVariables \cup {"lon", "lat", "z", "status"},
      ScenarioVariables,
      {"lon", "lat"},
      (DerivedVariables \ {"ocean_vertical_diffusivity"})
          \cup {"lon", "lat", "z", "status"},
      DerivedVariables,
      (DerivedVariables \ {"ocean_mixed_layer_thickness", "particulate_class"})
          \cup {"lat", "z"} }

FullAttrs ==
    [opendrift_class |-> "SedimentDrift", title |-> "run", institution |-> "BUas",
     source |-> "OpenDrift", history |-> "created", Conventions |-> "CF-1.6"]

ValidatorAttrs ==
    { [a \in {} |-> ""], FullAttrs,
      [opendrift_class |-> "OceanDrift", title |-> "run"] }

\* sizes with both dimensions, with one, with none
ValidatorSizes ==
    { [trajectory |-> 0, time |-> 1],
      [trajectory |-> MaxTraj, time |-> MaxTime],
      [trajectory |-> MaxPlanTraj, time |-> MaxPlanTraj],
      [trajectory |-> MaxTraj, time |-> 0],
      [time |-> MaxTime],
      [d \in {} |-> 0] }

\* sizes with a dimension of more elements than are sampled
LargeSizes ==
    { [trajectory |-> ManyIndices, time |-> 1],
      [trajectory |-> MaxTime, time |-> ManyIndices] }

ValidatorDatasets ==
    { ValidatorDataset(dims, names, attrs, data) :
        dims \in ValidatorSizes, names \in ValidatorVariables,
        attrs \in ValidatorAttrs,
        data \in CoordinateData(MaxTraj, MaxTime) }

LargeDatasets ==
    UNION { { ValidatorDataset(dims, ScenarioVariables, FullAttrs, data) :
                data \in CoordinateData(dims["trajectory"], dims["time"]) } :
            dims \in LargeSizes }

\* the checks that raise on a dataset
Faults ==
    { {}, {"Dimensions"}, {"SedimentDrift Variables"}, {"Data Integrity"},
      {"Trajectory Variables", "Attributes"},
      { checks[c] : c \in 1..Len(checks) } }

NoValidatorDataset ==
    [sizes |-> [d \in {} |-> 0], variables |-> [v \in {} |-> PlainArray],
     attrs |-> [a \in {} |-> ""]]

\* what is at the path: nothing, a directory, a file xr.open_dataset cannot
\* read, or a dataset
File(kind, readable, ds, faults) ==
    [kind |-> kind, readable |-> readable, ds |-> ds, faults |-> faults]

BrokenFiles ==
    { File("absent", FALSE, NoValidatorDataset, {}),
      File("directory", FALSE, NoValidatorDataset, {}),
      File("file", FALSE, NoValidatorDataset, {}) }

(***************************************************************************)
(* State of a run.                                                         *)
(***************************************************************************)
VARIABLES
    pc,            \* where the run is
    sys_argv,      \* the command line
    source,        \* the input file on disk
    session,       \* the answers typed in interactive mode
    supplied,      \* the particle parameters the user supplied, by name
    args,          \* the arguments create_fragments was called with
    opens,         \* xr.open_dataset calls on the input file
    closes,        \* close() calls on a dataset opened from the input file
    estimates,     \* evaluations of estimate_memory_requirements
    memory,        \* what the last evaluation returned
    prompted,      \* whether "Continue anyway?" was shown
    response,      \* what was typed there
    plan,          \* trajectories_per_fragment and num_fragments
    i,             \* the loop index of create_fragments
    ds_fragment,   \* the fragment being built
    output_files,  \* the paths appended so far
    files,         \* the fragment files on disk: path -> dataset
    writes,        \* to_netcdf calls that completed
    outcome,       \* how the run ended: "completed" and "aborted" are the
                   \* two returns of create_fragments, "cancelled" and
                   \* "usage" the returns before it, the rest exceptions
    returned       \* what create_fragments returned

\* add_missing_sediment_variables called on its own (SpecSynth)
VARIABLES
    syn_pc,        \* "idle", "ready", "once", "twice"
    syn_before,    \* the fragment when the first call starts
    syn_first,     \* the fragment when the first call returns
    syn_ds,        \* the fragment now
    syn_added,     \* what the last call returned
    syn_calls      \* the particle parameters of the calls made

\* the partition arithmetic on its own (SpecPlan)
VARIABLES
    plan_pc,       \* "idle", "plan", "loop", "done", "raised"
    plan_input,    \* n_traj and percentage
    plan_made,     \* trajectories_per_fragment and num_fragments
    plan_i,        \* the loop index
    plan_ranges,   \* the ranges [start_idx, end_idx) iterated over so far
    plan_paths     \* the output_file of each iteration so far

\* a run of GeoViz_Validator.py (SpecValidate)
VARIABLES
    val_pc,        \* "idle", "main", "file_access", "open", "overview",
                   \* "checks", "close", "return", "exited"
    val_argv,      \* the command line
    val_file,      \* what is at the path
    val_opts,      \* verbose and quick
    val_opened,    \* xr.open_dataset calls that succeeded
    val_closed,    \* ds.close() calls
    val_i,         \* the checks done with
    val_ran,       \* the names of the checks called, in the order called
    val_raised,    \* the names of the checks that raised
    val_checks,    \* what the checks that returned returned
    val_sample,    \* the indices validate_data_integrity drew
    overall_result,
    val_summary,   \* the results print_summary was called on
    val_result,    \* what validate_dataset returned
    val_exit       \* the exit status, -1 while running

synvars == << syn_pc, syn_before, syn_first, syn_ds, syn_added, syn_calls >>
planvars ==
    << plan_pc, plan_input, plan_made, plan_i, plan_ranges, plan_paths >>

runvars ==
    << pc, sys_argv, source, session, supplied, args, opens, closes, estimates,
       memory, prompted, response, plan, i, ds_fragment, output_files, files,
       writes, outcome, returned >>

NoDataset ==
    [sizes |-> [trajectory |-> 0, time |-> 0], rows |-> <<0, 0>>,
     variables |-> <<>>, attrs |-> <<>>]

NoMemory ==
    [estimated |-> 0, available |-> 0, is_safe |-> TRUE,
     recommended_percentage |-> Rat(0, 1)]

\* the defaults in the signature of create_fragments
DefaultArgs ==
    [input_file |-> InputFile, output_prefix |-> DefaultPrefix(InputFile),
     percentage |-> Rat(10, 1), add_sediment_vars |-> TRUE,
     particle_class |-> "other", particle_size_class |-> "medium",
     particle_diameter |-> Rat(1, 10000), particle_density |-> Rat(1027, 1)]

NothingSupplied == [k \in {} |-> 0]

RunInit ==
    /\ pc = "main"
    /\ \/ sys_argv \in CommandLines /\ source \in Sources
       \/ sys_argv \in ExampleCommandLines /\ source = ExampleSource
    /\ session = NoSession
    /\ supplied = NothingSupplied
    /\ args = DefaultArgs
    /\ opens = 0
    /\ closes = 0
    /\ estimates = 0
    /\ memory = NoMemory
    /\ prompted = FALSE
    /\ response = <<>>
    /\ plan = [per_fragment |-> 0, total |-> 0]
    /\ i = 0
    /\ ds_fragment = NoDataset
    /\ output_files = <<>>
    /\ files = <<>>
    /\ writes = 0
    /\ outcome = "running"
    /\ returned = <<>>


valvars ==
    << val_pc, val_argv, val_file, val_opts, val_opened, val_closed, val_i,
       val_ran, val_raised, val_checks, val_sample, overall_result,
       val_summary, val_result, val_exit >>

NoSample == [trajectory |-> {}, time |-> {}]

ValStart ==
    /\ val_opts = [verbose |-> FALSE, quick |-> FALSE]
    /\ val_opened = 0
    /\ val_closed = 0
    /\ val_i = 0
    /\ val_ran = <<>>
    /\ val_raised = <<>>
    /\ val_checks = <<>>
    /\ val_sample = NoSample
    /\ overall_result = ValidationResult
    /\ val_summary = <<>>
    /\ val_result = ValidationResult
    /\ val_exit = -1

ValIdle ==
    /\ val_pc = "idle"
    /\ val_argv = <<>>
    /\ val_file = File("absent", FALSE, NoValidatorDataset, {})
    /\ ValStart

vars == << runvars, synvars, planvars, valvars >>

SynIdle ==
    /\ syn_pc = "idle"
    /\ syn_before = NoDataset
    /\ syn_first = NoDataset
    /\ syn_ds = NoDataset
    /\ syn_added = <<>>
    /\ syn_calls = <<>>

PlanIdle ==
    /\ plan_pc = "idle"
    /\ plan_input = [n_traj |-> 0, percentage |-> Rat(0, 1)]
    /\ plan_made = [per_fragment |-> 0, total |-> 0]
    /\ plan_i = 0
    /\ plan_ranges = <<>>
    /\ plan_paths = <<>>

RunIdle ==
    /\ pc = "idle"
    /\ sys_argv = <<>>
    /\ source = NoDataset
    /\ session = NoSession
    /\ supplied = NothingSupplied
    /\ args = DefaultArgs
    /\ opens = 0
    /\ closes = 0
    /\ estimates = 0
    /\ memory = NoMemory
    /\ prompted = FALSE
    /\ response = <<>>
    /\ plan = [per_fragment |-> 0, total |-> 0]
    /\ i = 0
    /\ ds_fragment = NoDataset
    /\ output_files = <<>>
    /\ files = <<>>
    /\ writes = 0
    /\ outcome = "running"
    /\ returned = <<>>

(***************************************************************************)
(* main                                                                    *)
(***************************************************************************)
\* len(sys.argv) < 2: print the usage and return
Main_Usage ==
    /\ pc = "main"
    /\ Len(sys_argv) < 2
    /\ pc' = "done"
    /\ outcome' = "usage"
    /\ UNCHANGED << sys_argv, source, session, supplied, args, opens, closes,
                    estimates, memory, prompted, response, plan, i,
                    ds_fragment, output_files, files, writes, returned >>
    /\ UNCHANGED << synvars, planvars, valvars >>

\* what the positional arguments after PREFIX supply
CommandLineSupplied(argv) ==
    [k \in { n \in {"particle_class", "particle_size_class", "diameter_mm",
                    "density"} :
               Len(argv) >= (CASE n = "particle_class" -> 5
                               [] n = "particle_size_class" -> 6
                               [] n = "diameter_mm" -> 7
                               [] n = "density" -> 8) } |->
        CASE k = "particle_class" -> argv[5]
          [] k = "particle_size_class" -> argv[6]
          [] k = "diameter_mm" -> argv[7]
          [] k = "density" -> argv[8]]

\* the call main makes in command-line mode:
\* create_fragments(input_file, output_prefix, percentage)
CommandLineArgs(argv) ==
    [DefaultArgs EXCEPT
        !.input_file = argv[2],
        !.percentage = argv[3],
        !.output_prefix =
            IF Len(argv) > 3 THEN argv[4] ELSE DefaultPrefix(argv[2])]

\* len(sys.argv) > 2: command-line mode
Main_CommandLine ==
    /\ pc = "main"
    /\ Len(sys_argv) > 2
    /\ args' = CommandLineArgs(sys_argv)
    /\ supplied' = CommandLineSupplied(sys_argv)
    /\ pc' = "create_open"
    /\ UNCHANGED << sys_argv, source, session, opens, closes, estimates,
                    memory, prompted, response, plan, i, ds_fragment,
                    output_files, files, writes, outcome, returned >>
    /\ UNCHANGED << synvars, planvars, valvars >>

(***************************************************************************)
(* interactive_mode                                                        *)
(***************************************************************************)
\* len(sys.argv) == 2: the percentage prompt, then xr.open_dataset
Main_Interactive ==
    /\ pc = "main"
    /\ Len(sys_argv) = 2
    /\ \E s \in Sessions :
          /\ session' = s
          /\ args' = [DefaultArgs EXCEPT
                        !.input_file = sys_argv[2],
                        !.percentage =
                            IF s.percentage # NoAnswer THEN s.percentage[1]
                            ELSE Rat(10, 1)]
    /\ opens' = opens + 1
    /\ pc' = "interactive_estimate"
    /\ UNCHANGED << sys_argv, source, supplied, closes, estimates, memory,
                    prompted, response, plan, i, ds_fragment, output_files,
                    files, writes, outcome, returned >>
    /\ UNCHANGED << synvars, planvars, valvars >>

\* int(np.ceil(100 / percentage)), percentage # 0
ApproximateFragments(percentage) ==
    IF percentage.num > 0
    THEN CeilDiv(100 * percentage.den, percentage.num)
    ELSE CeilDiv(-100 * percentage.den, -percentage.num)

\* num_fragments = int(np.ceil(100 / percentage)); n_traj // num_fragments;
\* ds.close().  Either division raises ZeroDivisionError on a zero divisor,
\* and then ds is not closed.
Interactive_Estimate ==
    /\ pc = "interactive_estimate"
    /\ IF \/ args.percentage.num = 0
          \/ ApproximateFragments(args.percentage) = 0
       THEN /\ outcome' = "ZeroDivisionError"
            /\ pc' = "done"
            /\ UNCHANGED closes
       ELSE /\ closes' = closes + 1
            /\ pc' = "interactive_prompts"
            /\ UNCHANGED outcome
    /\ UNCHANGED << sys_argv, source, session, supplied, args, opens,
                    estimates, memory, prompted, response, plan, i,
                    ds_fragment, output_files, files, writes, returned >>
    /\ UNCHANGED << synvars, planvars, valvars >>

\* the particle parameters typed at the prompts, by name
SessionSupplied(s) ==
    IF lower(strip(s.add_vars)) = <<"n">> THEN NothingSupplied
    ELSE [k \in { n \in {"particle_class", "particle_size_class",
                         "diameter_mm", "density"} :
                    CASE n = "particle_class" ->
                           isdigit(s.class) /\ int(s.class) \in 1..7
                      [] n = "particle_size_class" ->
                           isdigit(s.size) /\ int(s.size) \in 1..3
                      [] n = "diameter_mm" -> s.diameter # NoAnswer
                      [] n = "density" -> s.density # NoAnswer } |->
            CASE k = "particle_class" -> classes[int(s.class)]
              [] k = "particle_size_class" -> sizes[int(s.size)]
              [] k = "diameter_mm" -> s.diameter[1]
              [] k = "density" -> s.density[1]]

\* the arguments interactive_mode passes to create_fragments
SessionArgs(a, s) ==
    LET add_sediment_vars == lower(strip(s.add_vars)) # <<"n">>
    IN  [a EXCEPT
          !.add_sediment_vars = add_sediment_vars,
          !.particle_class =
              IF add_sediment_vars /\ isdigit(s.class) /\ int(s.class) >= 1
                 /\ int(s.class) <= 7
              THEN classes[int(s.class)] ELSE "other",
          !.particle_size_class =
              IF add_sediment_vars /\ isdigit(s.size) /\ int(s.size) >= 1
                 /\ int(s.size) <= 3
              THEN sizes[int(s.size)] ELSE "medium",
          !.particle_diameter =
              IF add_sediment_vars /\ s.diameter # NoAnswer
              THEN RatDivInt(s.diameter[1], 1000) ELSE Rat(1, 10000),
          !.particle_density =
              IF add_sediment_vars /\ s.density # NoAnswer
              THEN s.density[1] ELSE Rat(1027, 1),
          !.output_prefix =
              IF strip(s.prefix) # <<>> THEN strip(s.prefix)
              ELSE DefaultPrefix(a.input_file)]

\* the prompts after the estimate, then "Proceed?"
Interactive_Prompts ==
    /\ pc = "interactive_prompts"
    /\ supplied' = SessionSupplied(session)
    /\ args' = SessionArgs(args, session)
    /\ IF lower(strip(session.proceed)) = <<"n">>
       THEN /\ outcome' = "cancelled"
            /\ pc' = "done"
       ELSE /\ pc' = "create_open"
            /\ UNCHANGED outcome
    /\ UNCHANGED << sys_argv, source, session, opens, closes, estimates,
                    memory, prompted, response, plan, i, ds_fragment,
                    output_files, files, writes, returned >>
    /\ UNCHANGED << synvars, planvars, valvars >>


(***************************************************************************)
(* create_fragments                                                        *)
(***************************************************************************)
\* ds = xr.open_dataset(input_file)
Create_Open ==
    /\ pc = "create_open"
    /\ opens' = opens + 1
    /\ pc' = "create_memory"
    /\ UNCHANGED << sys_argv, source, session, supplied, args, closes,
                    estimates, memory, prompted, response, plan, i,
                    ds_fragment, output_files, files, writes, outcome,
                    returned >>
    /\ UNCHANGED << synvars, planvars, valvars >>

\* check_memory_safety(ds, percentage) up to its prompt: the estimate, and
\* "return True" when it is safe
Create_MemoryCheck ==
    /\ pc = "create_memory"
    /\ \E available \in AvailableChoices :
          memory' = estimate_memory_requirements(source, args.percentage,
                                                 available)
    /\ estimates' = estimates + 1
    /\ IF memory'.is_safe
       THEN /\ pc' = "create_plan"
            /\ UNCHANGED prompted
       ELSE /\ pc' = "create_confirm"
            /\ prompted' = TRUE
    /\ UNCHANGED << sys_argv, source, session, supplied, args, opens, closes,
                    response, plan, i, ds_fragment, output_files, files,
                    writes, outcome, returned >>
    /\ UNCHANGED << synvars, planvars, valvars >>

\* anything but 'n' taken as consent
Accepted_UnlessNo(typed) == lower(strip(typed)) # <<"n">>

\* response == 'y', for response = input(...).strip().lower()
Accepted(typed) == lower(strip(typed)) = <<"y">>

\* "Continue anyway?": on anything but 'y', ds.close() and return []
Create_Confirm ==
    /\ pc = "create_confirm"
    /\ \E typed \in Responses : response' = typed
    /\ IF Accepted(response')
       THEN /\ pc' = "create_plan"
            /\ UNCHANGED << closes, outcome, returned >>
       ELSE /\ closes' = closes + 1
            /\ returned' = <<>>
            /\ outcome' = "aborted"
            /\ pc' = "done"
    /\ UNCHANGED << sys_argv, source, session, supplied, args, opens,
                    estimates, memory, prompted, plan, i, ds_fragment,
                    output_files, files, writes >>
    /\ UNCHANGED << synvars, planvars, valvars >>

\* The percentage check, then trajectories_per_fragment and num_fragments.
\* Nothing closes ds when one of them raises.
Create_Plan ==
    /\ pc = "create_plan"
    /\ LET planned == Planned(source.sizes.trajectory, args.percentage)
       IN  IF planned.raised # ""
           THEN /\ outcome' = planned.raised
                /\ pc' = "done"
                /\ UNCHANGED << plan, i, output_files >>
           ELSE /\ plan' = [per_fragment |-> planned.per_fragment,
                            total |-> planned.total]
                /\ i' = 0
                /\ output_files' = <<>>
                /\ pc' = IF planned.total > 0 THEN "create_slice"
                         ELSE "create_close"
                /\ UNCHANGED outcome
    /\ UNCHANGED << sys_argv, source, session, supplied, args, opens, closes,
                    estimates, memory, prompted, response, ds_fragment, files,
                    writes, returned >>
    /\ UNCHANGED << synvars, planvars, valvars >>

\* ds_fragment = ds.isel(trajectory=slice(start_idx, end_idx))
Create_Slice ==
    /\ pc = "create_slice"
    /\ ds_fragment' =
          isel(source, start_idx(i, plan.per_fragment),
               end_idx(i, plan.per_fragment, source.sizes.trajectory))
    /\ pc' = "create_synthesize"
    /\ UNCHANGED << sys_argv, source, session, supplied, args, opens, closes,
                    estimates, memory, prompted, response, plan, i,
                    output_files, files, writes, outcome, returned >>
    /\ UNCHANGED << synvars, planvars, valvars >>

\* if add_sediment_vars: add_missing_sediment_variables(ds_fragment, ...)
Synthesized(fragment, a) ==
    IF a.add_sediment_vars
    THEN add_missing_sediment_variables(fragment, a.particle_class,
             a.particle_size_class, a.particle_diameter,
             a.particle_density).ds
    ELSE fragment

Create_Synthesize ==
    /\ pc = "create_synthesize"
    /\ ds_fragment' = Synthesized(ds_fragment, args)
    /\ pc' = "create_annotate"
    /\ UNCHANGED << sys_argv, source, session, supplied, args, opens, closes,
                    estimates, memory, prompted, response, plan, i,
                    output_files, files, writes, outcome, returned >>
    /\ UNCHANGED << synvars, planvars, valvars >>

\* the six ds_fragment.attrs[...] = ... assignments
Annotated(fragment, fragment_num, total, start, end, input_file) ==
    SetAttr(SetAttr(SetAttr(SetAttr(SetAttr(SetAttr(fragment,
        "fragment_number", fragment_num),
        "total_fragments", total),
        "fragment_trajectory_start", start),
        "fragment_trajectory_end", end),
        "original_file", basename(input_file)),
        "modified_by", "fragment_with_sediment.py")

Create_Annotate ==
    /\ pc = "create_annotate"
    /\ ds_fragment' =
          Annotated(ds_fragment, i + 1, plan.total,
              start_idx(i, plan.per_fragment),
              end_idx(i, plan.per_fragment, source.sizes.trajectory),
              args.input_file)
    /\ pc' = "create_write"
    /\ UNCHANGED << sys_argv, source, session, supplied, args, opens, closes,
                    estimates, memory, prompted, response, plan, i,
                    output_files, files, writes, outcome, returned >>
    /\ UNCHANGED << synvars, planvars, valvars >>

\* ds_fragment.to_netcdf(output_file): the file at that path now holds the
\* fragment, whatever it held before
to_netcdf(disk, output_file, fragment) ==
    [f \in (DOMAIN disk) \cup {output_file} |->
        IF f = output_file THEN fragment ELSE disk[f]]

\* the write handed to a background writer: the path is appended and the
\* loop goes on before to_netcdf has completed
Create_Write_InBackground ==
    /\ pc = "create_write"
    /\ output_files' =
          Append(output_files,
                 OutputFile(args.output_prefix, i + 1, plan.total))
    /\ i' = i + 1
    /\ pc' = IF i + 1 < plan.total THEN "create_slice" ELSE "create_close"
    /\ UNCHANGED << sys_argv, source, session, supplied, args, opens, closes,
                    estimates, memory, prompted, response, plan, ds_fragment,
                    files, writes, outcome, returned >>
    /\ UNCHANGED << synvars, planvars, valvars >>

\* to_netcdf, output_files.append, ds_fragment.close(), next iteration
Create_Write ==
    /\ pc = "create_write"
    /\ LET output_file == OutputFile(args.output_prefix, i + 1, plan.total)
       IN  /\ files' = to_netcdf(files, output_file, ds_fragment)
           /\ output_files' = Append(output_files, output_file)
    /\ writes' = writes + 1
    /\ i' = i + 1
    /\ pc' = IF i + 1 < plan.total THEN "create_slice" ELSE "create_close"
    /\ UNCHANGED << sys_argv, source, session, supplied, args, opens, closes,
                    estimates, memory, prompted, response, plan, ds_fragment,
                    outcome, returned >>
    /\ UNCHANGED << synvars, planvars, valvars >>

\* the loop body in a try block that reports the exception and goes on to
\* the next fragment
Create_Failure_SkipsFragment ==
    /\ pc \in {"create_slice", "create_synthesize", "create_annotate",
               "create_write"}
    /\ outcome' = "IOFailure"
    /\ i' = i + 1
    /\ pc' = IF i + 1 < plan.total THEN "create_slice" ELSE "create_close"
    /\ UNCHANGED << sys_argv, source, session, supplied, args, opens, closes,
                    estimates, memory, prompted, response, plan,
                    ds_fragment, output_files, files, writes, returned >>
    /\ UNCHANGED << synvars, planvars, valvars >>

\* An exception raised while a fragment is sliced, synthesized, annotated or
\* written (MemoryError, OSError from to_netcdf, ...).  create_fragments has
\* no try block: the exception leaves it at once, ds still open.  A
\* to_netcdf that fails may have created the file it was writing, with
\* unusable content.
Create_Failure ==
    /\ pc \in {"create_slice", "create_synthesize", "create_annotate",
               "create_write"}
    /\ \/ UNCHANGED files
       \/ /\ pc = "create_write"
          /\ files' = to_netcdf(files,
                          OutputFile(args.output_prefix, i + 1, plan.total),
                          NoDataset)
    /\ outcome' = "IOFailure"
    /\ pc' = "done"
    /\ UNCHANGED << sys_argv, source, session, supplied, args, opens, closes,
                    estimates, memory, prompted, response, plan, i,
                    ds_fragment, output_files, writes, returned >>
    /\ UNCHANGED << synvars, planvars, valvars >>

\* ds.close(), the summary, return output_files
Create_Close ==
    /\ pc = "create_close"
    /\ closes' = closes + 1
    /\ returned' = output_files
    /\ outcome' = "completed"
    /\ pc' = "done"
    /\ UNCHANGED << sys_argv, source, session, supplied, args, opens,
                    estimates, memory, prompted, response, plan, i,
                    ds_fragment, output_files, files, writes >>
    /\ UNCHANGED << synvars, planvars, valvars >>

RunNext ==
    \/ Main_Usage
    \/ Main_CommandLine
    \/ Main_Interactive
    \/ Interactive_Estimate
    \/ Interactive_Prompts
    \/ Create_Open
    \/ Create_MemoryCheck
    \/ Create_Confirm
    \/ Create_Plan
    \/ Create_Slice
    \/ Create_Synthesize
    \/ Create_Annotate
    \/ Create_Write
    \/ Create_Failure
    \/ Create_Close

Init == RunInit /\ SynIdle /\ PlanIdle /\ ValIdle

Next == RunNext

Spec == Init /\ [][Next]_vars


(***************************************************************************)
(* SpecSynth: add_missing_sediment_variables called twice on one fragment, *)
(* for every subset of the derived variables present at the start.         *)
(***************************************************************************)
SynFragments ==
    { Dataset(n, t, BaseVariables \cup present, attrs) :
        n \in 1..MaxSynTraj, t \in 1..MaxTime,
        present \in SUBSET DerivedVariables, attrs \in SourceAttrs }

SynParameters ==
    { [particle_class |-> "other", particle_size_class |-> "medium",
       particle_diameter |-> Rat(1, 10000), particle_density |-> Rat(1027, 1)],
      [particle_class |-> "oil", particle_size_class |-> "large",
       particle_diameter |-> Rat(5, 1000), particle_density |-> Rat(900, 1)] }

SynInit ==
    /\ syn_pc = "ready"
    /\ syn_before \in SynFragments
    /\ syn_ds = syn_before
    /\ syn_first = NoDataset
    /\ syn_added = <<>>
    /\ syn_calls = <<>>

Syn_Call ==
    /\ syn_pc \in {"ready", "once"}
    /\ \E q \in SynParameters :
          LET r == add_missing_sediment_variables(syn_ds, q.particle_class,
                       q.particle_size_class, q.particle_diameter,
                       q.particle_density)
          IN  /\ syn_ds' = r.ds
              /\ syn_added' = r.added_vars
              /\ syn_first' = IF syn_pc = "ready" THEN r.ds ELSE syn_first
              /\ syn_calls' = Append(syn_calls, q)
    /\ syn_pc' = IF syn_pc = "ready" THEN "once" ELSE "twice"
    /\ UNCHANGED syn_before
    /\ UNCHANGED << runvars, planvars, valvars >>

SynNext == Syn_Call

InitSynth == RunIdle /\ SynInit /\ PlanIdle /\ ValIdle

SpecSynth == InitSynth /\ [][SynNext]_vars

(***************************************************************************)
(* SpecPlan: lines 313-348 of create_fragments, the percentage check, the  *)
(* plan and the ranges the loop iterates over, for every trajectory count  *)
(* up to MaxPlanTraj and every percentage k/2.                             *)
(***************************************************************************)
PlanPercentages ==
    { Rat(k, 2) : k \in 1..200 } \cup { Rat(-10, 1), Rat(0, 1), Rat(150, 1) }

PlanInit ==
    /\ plan_pc = "plan"
    /\ plan_input \in [n_traj : 0..MaxPlanTraj, percentage : PlanPercentages]
    /\ plan_made = [per_fragment |-> 0, total |-> 0]
    /\ plan_i = 0
    /\ plan_ranges = <<>>
    /\ plan_paths = <<>>

Plan_Make ==
    /\ plan_pc = "plan"
    /\ LET planned == Planned(plan_input.n_traj, plan_input.percentage)
       IN  IF planned.raised # ""
           THEN /\ plan_pc' = "raised"
                /\ UNCHANGED plan_made
           ELSE /\ plan_made' = [per_fragment |-> planned.per_fragment,
                                 total |-> planned.total]
                /\ plan_pc' = IF planned.total > 0 THEN "loop" ELSE "done"
    /\ UNCHANGED << plan_input, plan_i, plan_ranges, plan_paths >>
    /\ UNCHANGED << runvars, synvars, valvars >>

\* one iteration of "for i in range(num_fragments)"
Plan_Range ==
    /\ plan_pc = "loop"
    /\ plan_ranges' =
          Append(plan_ranges,
                 << start_idx(plan_i, plan_made.per_fragment),
                    end_idx(plan_i, plan_made.per_fragment,
                            plan_input.n_traj) >>)
    /\ plan_paths' =
          Append(plan_paths,
                 OutputFile(DefaultPrefix(InputFile), plan_i + 1,
                            plan_made.total))
    /\ plan_i' = plan_i + 1
    /\ plan_pc' = IF plan_i + 1 < plan_made.total THEN "loop" ELSE "done"
    /\ UNCHANGED << plan_input, plan_made >>
    /\ UNCHANGED << runvars, synvars, valvars >>

PlanNext == Plan_Make \/ Plan_Range

InitPlan == RunIdle /\ SynIdle /\ PlanInit /\ ValIdle

SpecPlan == InitPlan /\ [][PlanNext]_vars

(***************************************************************************)
(* SpecNames: the same loop on inputs cut into about a thousand fragments   *)
(* of one trajectory each.                                                  *)
(***************************************************************************)
NamesInit ==
    /\ plan_pc = "plan"
    /\ plan_input \in
          [n_traj : {ManyFragments - 2, ManyFragments - 1, ManyFragments},
           percentage : {Rat(1, 20)}]
    /\ plan_made = [per_fragment |-> 0, total |-> 0]
    /\ plan_i = 0
    /\ plan_ranges = <<>>
    /\ plan_paths = <<>>

InitNames == RunIdle /\ SynIdle /\ NamesInit /\ ValIdle

SpecNames == InitNames /\ [][PlanNext]_vars

(***************************************************************************)
(* SpecValidate: a run of GeoViz_Validator.py.                              *)
(***************************************************************************)
ValInit ==
    /\ val_pc = "main"
    /\ \/ /\ val_argv \in ValidatorCommandLines
          /\ val_file \in
                { File("file", TRUE, ds, faults) :
                    ds \in ValidatorDatasets, faults \in Faults }
       \/ /\ val_argv = << ValidatorScript, InputFile >>
          /\ val_file \in { File("file", TRUE, ds, {}) : ds \in LargeDatasets }
       \/ /\ val_argv \in
                { << ValidatorScript >>, << ValidatorScript, InputFile >>,
                  << ValidatorScript, OtherFile >> }
          /\ val_file \in
                BrokenFiles \cup
                { File("file", TRUE,
                       ValidatorDataset([trajectory |-> MaxPlanTraj,
                                         time |-> MaxPlanTraj],
                           DerivedVariables \cup {"lon", "lat", "z", "status"},
                           FullAttrs, data), {}) :
                    data \in CoordinateData(MaxTraj, MaxTime) }
    /\ ValStart

\* len(sys.argv) < 2: the usage, return 1
ValMain_Usage ==
    /\ val_pc = "main"
    /\ Len(val_argv) < 2
    /\ val_exit' = 1
    /\ val_pc' = "exited"
    /\ UNCHANGED << val_argv, val_file, val_opts, val_opened, val_closed,
                    val_i, val_ran, val_raised, val_checks, val_sample,
                    overall_result, val_summary, val_result >>
    /\ UNCHANGED << runvars, synvars, planvars >>

\* flag in sys.argv
InArgv(flag, argv) == \E k \in 1..Len(argv) : argv[k] = flag

\* verbose and quick, then validate_dataset(input_file, verbose, quick)
ValMain ==
    /\ val_pc = "main"
    /\ Len(val_argv) >= 2
    /\ val_opts' =
          [verbose |-> InArgv(<<"--verbose">>, val_argv) \/ InArgv(<<"-v">>, val_argv),
           quick |-> InArgv(<<"--quick">>, val_argv) \/ InArgv(<<"-q">>, val_argv)]
    /\ val_pc' = "file_access"
    /\ UNCHANGED << val_argv, val_file, val_opened, val_closed, val_i,
                    val_ran, val_raised, val_checks, val_sample,
                    overall_result, val_summary, val_result, val_exit >>
    /\ UNCHANGED << runvars, synvars, planvars >>

\* validate_file_access; "if not file_result.is_valid(): print_summary,
\* return file_result"
Val_FileAccess ==
    /\ val_pc = "file_access"
    /\ LET file_result == validate_file_access(val_argv[2], val_file)
       IN  IF ~is_valid(file_result)
           THEN /\ val_summary' = Append(val_summary, file_result)
                /\ val_result' = file_result
                /\ val_pc' = "return"
           ELSE /\ val_pc' = "open"
                /\ UNCHANGED << val_summary, val_result >>
    /\ UNCHANGED << val_argv, val_file, val_opts, val_opened, val_closed,
                    val_i, val_ran, val_raised, val_checks, val_sample,
                    overall_result, val_exit >>
    /\ UNCHANGED << runvars, synvars, planvars >>

\* xr.open_dataset in its try block
Val_Open ==
    /\ val_pc = "open"
    /\ IF val_file.readable
       THEN /\ val_opened' = val_opened + 1
            /\ val_pc' = "overview"
            /\ UNCHANGED << val_summary, val_result >>
       ELSE LET result ==
                    add_error(ValidationResult,
                              <<"Failed to open NetCDF file", "filepath">>)
            IN  /\ val_summary' = Append(val_summary, result)
                /\ val_result' = result
                /\ val_pc' = "return"
                /\ UNCHANGED val_opened
    /\ UNCHANGED << val_argv, val_file, val_opts, val_closed, val_i, val_ran,
                    val_raised, val_checks, val_sample, overall_result,
                    val_exit >>
    /\ UNCHANGED << runvars, synvars, planvars >>

\* print_dataset_overview(ds, verbose), overall_result = ValidationResult()
Val_Overview ==
    /\ val_pc = "overview"
    /\ overall_result' = ValidationResult
    /\ val_i' = 0
    /\ val_pc' = "checks"
    /\ UNCHANGED << val_argv, val_file, val_opts, val_opened, val_closed,
                    val_ran, val_raised, val_checks, val_sample, val_summary,
                    val_result, val_exit >>
    /\ UNCHANGED << runvars, synvars, planvars >>

\* the index sets validate_data_integrity can draw; NoSample where it draws
\* none
Draws(check_name, ds, quick) ==
    IF check_name = "Data Integrity" /\ ~quick
    THEN { [trajectory |-> T, time |-> K] :
             T \in Indices(sizes_get(ds, "trajectory")),
             K \in Indices(sizes_get(ds, "time")) }
    ELSE { NoSample }

\* the loop left at the first check that raises
Val_Check_StopsAtFailure ==
    /\ val_pc = "checks"
    /\ LET check_name == checks[val_i + 1]
       IN  /\ val_ran' = Append(val_ran, check_name)
           /\ IF check_name \in val_file.faults
              THEN /\ overall_result' =
                         add_error(overall_result,
                                   <<"Validation check failed", check_name>>)
                   /\ val_raised' = Append(val_raised, check_name)
                   /\ val_pc' = "close"
                   /\ UNCHANGED << val_checks, val_sample >>
              ELSE /\ \E drawn \in Draws(check_name, val_file.ds, val_opts.quick) :
                         /\ val_sample' =
                               IF check_name = "Data Integrity" THEN drawn
                               ELSE val_sample
                         /\ LET check_result ==
                                    check_func(check_name, val_file.ds,
                                        val_opts.quick, drawn.trajectory,
                                        drawn.time)
                            IN  /\ overall_result' =
                                      Merge(overall_result, check_result)
                                /\ val_checks' = Append(val_checks, check_result)
                   /\ val_pc' = IF val_i + 1 < Len(checks) THEN "checks"
                                ELSE "close"
                   /\ UNCHANGED val_raised
    /\ val_i' = val_i + 1
    /\ UNCHANGED << val_argv, val_file, val_opts, val_opened, val_closed,
                    val_summary, val_result, val_exit >>
    /\ UNCHANGED << runvars, synvars, planvars >>

\* One iteration of "for check_name, check_func in checks": the check's
\* result merged into overall_result, or, when the check raises, one
\* add_error.
Val_Check ==
    /\ val_pc = "checks"
    /\ LET check_name == checks[val_i + 1]
       IN  /\ val_ran' = Append(val_ran, check_name)
           /\ IF check_name \in val_file.faults
              THEN /\ overall_result' =
                         add_error(overall_result,
                                   <<"Validation check failed", check_name>>)
                   /\ val_raised' = Append(val_raised, check_name)
                   /\ UNCHANGED << val_checks, val_sample >>
              ELSE /\ \E drawn \in Draws(check_name, val_file.ds, val_opts.quick) :
                         /\ val_sample' =
                               IF check_name = "Data Integrity" THEN drawn
                               ELSE val_sample
                         /\ LET check_result ==
                                    check_func(check_name, val_file.ds,
                                        val_opts.quick, drawn.trajectory,
                                        drawn.time)
                            IN  /\ overall_result' =
                                      Merge(overall_result, check_result)
                                /\ val_checks' = Append(val_checks, check_result)
                   /\ UNCHANGED val_raised
    /\ val_i' = val_i + 1
    /\ val_pc' = IF val_i + 1 < Len(checks) THEN "checks" ELSE "close"
    /\ UNCHANGED << val_argv, val_file, val_opts, val_opened, val_closed,
                    val_summary, val_result, val_exit >>
    /\ UNCHANGED << runvars, synvars, planvars >>

\* ds.close(), overall_result.print_summary(), return overall_result
Val_Close ==
    /\ val_pc = "close"
    /\ val_closed' = val_closed + 1
    /\ val_summary' = Append(val_summary, overall_result)
    /\ val_result' = overall_result
    /\ val_pc' = "return"
    /\ UNCHANGED << val_argv, val_file, val_opts, val_opened, val_i, val_ran,
                    val_raised, val_checks, val_sample, overall_result,
                    val_exit >>
    /\ UNCHANGED << runvars, synvars, planvars >>

\* return 0 if (result.is_valid() and result.has_all_required()) else 1
ExitStatus(result) ==
    IF is_valid(result) /\ has_all_required(result) THEN 0 ELSE 1

ValMain_Exit ==
    /\ val_pc = "return"
    /\ val_exit' = ExitStatus(val_result)
    /\ val_pc' = "exited"
    /\ UNCHANGED << val_argv, val_file, val_opts, val_opened, val_closed,
                    val_i, val_ran, val_raised, val_checks, val_sample,
                    overall_result, val_summary, val_result >>
    /\ UNCHANGED << runvars, synvars, planvars >>

ValNext ==
    \/ ValMain_Usage
    \/ ValMain
    \/ Val_FileAccess
    \/ Val_Open
    \/ Val_Overview
    \/ Val_Check
    \/ Val_Close
    \/ ValMain_Exit

InitValidate == RunIdle /\ SynIdle /\ PlanIdle /\ ValInit

SpecValidate == InitValidate /\ [][ValNext]_vars


(***************************************************************************)
(* Properties of the partition arithmetic (SpecPlan).                      *)
(***************************************************************************)
RangeSet(r) == r[1]..(r[2] - 1)

RECURSIVE SumOfSizes(_)
SumOfSizes(ranges) ==
    IF ranges = <<>> THEN 0
    ELSE (Head(ranges)[2] - Head(ranges)[1]) + SumOfSizes(Tail(ranges))

\* ceil(a / b) for a >= 0, b >= 1: the least m with m * b >= a
LeastMultiple(a, b) == CHOOSE m \in 0..a : m * b >= a /\ (m - 1) * b < a

\* C1: for n >= 1 and a percentage in (0,100], the ranges the loop iterates
\* over are contiguous from 0 and pairwise disjoint at every point of the
\* loop, and once the loop has ended they cover [0, n) exactly, their sizes
\* sum to n, and there are ceil(n / ceil(n * p / 100)) of them.
C1_RangesPartition ==
    LET n == plan_input.n_traj
        p == plan_input.percentage
    IN  (plan_pc \in {"loop", "done"} /\ n >= 1 /\ ~InvalidPercentage(p)) =>
          /\ \A k \in 1..Len(plan_ranges) :
                plan_ranges[k][1] = IF k = 1 THEN 0 ELSE plan_ranges[k - 1][2]
          /\ \A j, k \in 1..Len(plan_ranges) :
                j # k => RangeSet(plan_ranges[j]) \cap RangeSet(plan_ranges[k]) = {}
          /\ \A k \in 1..Len(plan_ranges) : plan_ranges[k][2] <= n
          /\ plan_pc = "done" =>
                /\ UNION { RangeSet(plan_ranges[k]) : k \in 1..Len(plan_ranges) }
                     = 0..(n - 1)
                /\ SumOfSizes(plan_ranges) = n
                /\ Len(plan_ranges) =
                     LeastMultiple(n, LeastMultiple(n * p.num, 100 * p.den))

\* a plan of three or more ranges whose last range is a short remainder
C1_Witness ==
    /\ plan_pc = "done"
    /\ Len(plan_ranges) >= 3
    /\ plan_ranges[Len(plan_ranges)][2] - plan_ranges[Len(plan_ranges)][1]
         < plan_ranges[1][2] - plan_ranges[1][1]

(***************************************************************************)
(* Properties of add_missing_sediment_variables (SpecSynth).               *)
(***************************************************************************)
AbsentBefore == DerivedVariables \ DOMAIN syn_before.variables

Names(added_vars) == { added_vars[k].name : k \in 1..Len(added_vars) }

\* C5: after one call, each of the seven derived variables is added iff it
\* was absent when the call started; every variable that was present has
\* the values and attributes it had; every global attribute that was
\* present, 'opendrift_class' among them, has the value it had; and the
\* returned list names exactly the variables that were absent, once each.
C5_AddsExactlyTheAbsent ==
    syn_pc = "once" =>
      /\ DOMAIN syn_ds.variables =
            DOMAIN syn_before.variables \cup DerivedVariables
      /\ \A v \in DOMAIN syn_before.variables :
            syn_ds.variables[v] = syn_before.variables[v]
      /\ \A v \in AbsentBefore : syn_ds.variables[v].value # SourceData
      /\ \A a \in DOMAIN syn_before.attrs :
            /\ a \in DOMAIN syn_ds.attrs
            /\ syn_ds.attrs[a] = syn_before.attrs[a]
      /\ Names(syn_added) = AbsentBefore
      /\ Len(syn_added) = Cardinality(AbsentBefore)

\* one call on a fragment that had some derived variables, lacked others,
\* and carried an 'opendrift_class' attribute
C5_Witness ==
    /\ syn_pc = "once"
    /\ AbsentBefore # {}
    /\ AbsentBefore # DerivedVariables
    /\ "opendrift_class" \in DOMAIN syn_before.attrs
    /\ syn_added # <<>>

\* C6: after a second call, with whatever parameters, the fragment is what
\* it was after the first call and the second call returned an empty list.
C6_SecondCallAddsNothing ==
    syn_pc = "twice" => (syn_ds = syn_first /\ syn_added = <<>>)

\* two calls with different parameters on a fragment that lacked a derived
\* variable at the start
C6_Witness ==
    /\ syn_pc = "twice"
    /\ AbsentBefore # {}
    /\ Len(syn_calls) = 2
    /\ syn_calls[1] # syn_calls[2]


(***************************************************************************)
(* Properties of a run (Spec).                                             *)
(***************************************************************************)
\* the run has entered create_fragments
InCreateFragments ==
    \/ pc \in {"create_open", "create_memory", "create_confirm", "create_plan",
               "create_slice", "create_synthesize", "create_annotate",
               "create_write", "create_close"}
    \/ pc = "done"
       /\ outcome \in {"completed", "aborted", "ValueError", "IOFailure"}
    \/ pc = "done" /\ outcome = "ZeroDivisionError" /\ estimates > 0

\* xr.open_dataset calls made by create_fragments itself
OpensInCreateFragments == IF Len(sys_argv) = 2 THEN opens - 1 ELSE opens

\* the derived variables a written fragment did not get from the input
SynthesizedIn(fragment) ==
    (DOMAIN fragment.variables \cap DerivedVariables) \ DOMAIN source.variables

\* C2: a run of create_fragments whose percentage is outside (0,100] does
\* not open the input, does not evaluate the estimator, does not show the
\* confirm/abort prompt, and ends with ValueError, never with a return.
C2_InvalidPercentageFailsFirst ==
    (InCreateFragments /\ InvalidPercentage(args.percentage)) =>
      /\ OpensInCreateFragments = 0
      /\ estimates = 0
      /\ ~prompted
      /\ pc = "done" => outcome = "ValueError"

\* C3: once an unsafe estimate has been answered with anything that is not
\* 'y' after trimming and lower-casing, the run has ended: every handle
\* opened is closed, no fragment file was written, create_fragments
\* returned an empty list.  And no fragment file is ever written unless the
\* estimate was safe or the answer was 'y'.
C3_DeclinedWritesNothing ==
    /\ (prompted /\ pc # "create_confirm" /\ lower(strip(response)) # <<"y">>) =>
          /\ pc = "done"
          /\ outcome = "aborted"
          /\ returned = <<>>
          /\ closes = opens
          /\ writes = 0
          /\ DOMAIN files = {}
    /\ (writes > 0 \/ DOMAIN files # {}) =>
          /\ estimates > 0
          /\ memory.is_safe \/ lower(strip(response)) = <<"y">>

\* an unsafe estimate answered with an empty line
C3_Witness ==
    /\ pc = "done"
    /\ prompted
    /\ ~memory.is_safe
    /\ response = <<>>
    /\ outcome = "aborted"
    /\ returned = <<>>

\* C4: when a run that reached the fragmenter has ended, by a return
\* (completion or cancellation at the memory gate), by the rejection of the
\* percentage or by a failure in the loop, the input was opened exactly
\* once and closed exactly once.
C4_OpenedOnceClosedOnce ==
    (pc = "done"
     /\ outcome \in {"completed", "aborted", "ValueError", "IOFailure"}) =>
      (opens = 1 /\ closes = 1)

\* C7 as stated: after a run that completes, every fragment written holds
\* all seven derived variables, each synthesized one of shape
\* (end - start, time_count) of the fragment's own range.
C7_EveryFragmentHasAllSeven ==
    (pc = "done" /\ outcome = "completed") =>
      \A f \in DOMAIN files :
        /\ DerivedVariables \subseteq DOMAIN files[f].variables
        /\ \A v \in SynthesizedIn(files[f]) :
              files[f].variables[v].shape =
                << files[f].rows[2] - files[f].rows[1], source.sizes.time >>

\* C7 amended: after a run that completes with add_sediment_vars set (always
\* in command-line mode, in interactive mode unless the user answers 'n'),
\* every fragment written holds all seven derived variables, each
\* synthesized one a constant array of shape (end - start, time_count) of
\* the fragment's own range; the input of ExampleTraj trajectories at 40%
\* gives three fragments of 100, 100 and 50 trajectories.
C7_FragmentsHaveAllSevenWhenAdding ==
    (pc = "done" /\ outcome = "completed" /\ args.add_sediment_vars) =>
      /\ \A f \in DOMAIN files :
            /\ DerivedVariables \subseteq DOMAIN files[f].variables
            /\ \A v \in SynthesizedIn(files[f]) :
                  /\ files[f].variables[v].shape =
                        << files[f].rows[2] - files[f].rows[1],
                           source.sizes.time >>
                  /\ files[f].variables[v].value # SourceData
      /\ (source.sizes.trajectory = 250 /\ args.percentage = Rat(40, 1)) =>
            /\ Len(returned) = 3
            /\ \A k \in 1..3 :
                  /\ returned[k] \in DOMAIN files
                  /\ files[returned[k]].sizes.trajectory = <<100, 100, 50>>[k]
                  /\ SynthesizedIn(files[returned[k]]) = DerivedVariables

\* a completed run of several fragments, the last one smaller than the
\* input, that synthesized derived variables
C7_Witness ==
    /\ pc = "done"
    /\ outcome = "completed"
    /\ args.add_sediment_vars
    /\ Len(returned) >= 2
    /\ \E f \in DOMAIN files :
          /\ SynthesizedIn(files[f]) # {}
          /\ files[f].sizes.trajectory < source.sizes.trajectory

\* the value a synthesized variable must hold, given what the user supplied
UsesSupplied(v, value) ==
    CASE v = "particulate_class" ->
           value = StrVal(IF "particle_class" \in DOMAIN supplied
                          THEN supplied["particle_class"] ELSE "other")
      [] v = "particulate_size_class" ->
           value = StrVal(IF "particle_size_class" \in DOMAIN supplied
                          THEN supplied["particle_size_class"] ELSE "medium")
      [] v = "particulate_density" ->
           RatEq(value, IF "density" \in DOMAIN supplied
                        THEN supplied["density"] ELSE Rat(1027, 1))
      [] v = "particulate_diameter" ->
           RatEq(value, IF "diameter_mm" \in DOMAIN supplied
                        THEN RatDivInt(supplied["diameter_mm"], 1000)
                        ELSE RatDivInt(Rat(1, 10), 1000))
      [] OTHER -> TRUE

\* C8: the class, size class, diameter and density supplied for a run are
\* the values of every synthesized particulate_class,
\* particulate_size_class, particulate_diameter and particulate_density in
\* every fragment written; a parameter not supplied has its default.
C8_SuppliedParametersUsed ==
    \A f \in DOMAIN files :
      \A v \in SynthesizedIn(files[f]) :
        UsesSupplied(v, files[f].variables[v].value)

\* C9: a diameter supplied in millimeters is stored in a synthesized
\* particulate_diameter as that value divided by 1000, in every fragment.
C9_DiameterStoredInMeters ==
    \A f \in DOMAIN files :
      ("particulate_diameter" \in SynthesizedIn(files[f])
       /\ "diameter_mm" \in DOMAIN supplied) =>
        LET stored == files[f].variables["particulate_diameter"].value
            mm == supplied["diameter_mm"]
        IN  stored.num * 1000 * mm.den = mm.num * stored.den

\* C10: whenever the estimator, given a percentage in (0,100], reports
\* is_safe = False, the recommended percentage it returns is strictly
\* smaller than the percentage passed in.
C10_UnsafeRecommendsSmaller ==
    (estimates > 0 /\ ~InvalidPercentage(args.percentage)
     /\ ~memory.is_safe) =>
      RatLT(memory.recommended_percentage, args.percentage)

(***************************************************************************)
(* C11  For a fixed dataset shape the memory estimate does not decrease    *)
(* as the percentage grows: for p1 <= p2 in (0, 100] the estimate at p1 is *)
(* at most the estimate at p2.  Checked on the estimate a run has just     *)
(* made against the estimate of every other valid percentage.              *)
(***************************************************************************)
JustEstimated ==
    /\ pc \in {"create_confirm", "create_plan"}
    /\ ~InvalidPercentage(args.percentage)

C11_EstimateMonotone ==
    JustEstimated =>
        \A p \in Percentages :
            ~InvalidPercentage(p) =>
                /\ RatLE(p, args.percentage) =>
                       estimated(source, p) <= memory.estimated
                /\ RatLE(args.percentage, p) =>
                       memory.estimated <= estimated(source, p)

\* an estimate strictly above the estimate of a smaller percentage
C11_Witness ==
    /\ JustEstimated
    /\ \E p \in Percentages :
          /\ ~InvalidPercentage(p)
          /\ RatLT(p, args.percentage)
          /\ 0 < estimated(source, p)
          /\ estimated(source, p) < memory.estimated

(***************************************************************************)
(* C12  Whenever create_fragments goes on to compute the number of         *)
(* fragments, the trajectories per fragment are at least 1, whatever the    *)
(* trajectory count of the source (0 included) and the percentage; a plan   *)
(* with 0 trajectories per fragment ends in ValueError and in no other      *)
(* failure.                                                                 *)
(***************************************************************************)
PastThePlan ==
    pc \in {"create_slice", "create_synthesize", "create_annotate",
            "create_write", "create_close"}

C12_ZeroPerFragmentIsValueError ==
    /\ PastThePlan => plan.per_fragment >= 1
    /\ outcome # "ZeroDivisionError"

(***************************************************************************)
(* C13  For every trajectory count n >= 1, percentage = 100 gives exactly  *)
(* one fragment, and its range is [0, n).                                   *)
(***************************************************************************)
C13_FullPercentageOneFragment ==
    LET n == plan_input.n_traj
        p == plan_input.percentage
    IN  (plan_pc \in {"loop", "done", "raised"} /\ n >= 1
            /\ RatEq(p, Rat(100, 1))) =>
          /\ plan_pc # "raised"
          /\ plan_made.total = 1
          /\ plan_pc = "loop" => plan_ranges = <<>>
          /\ plan_pc = "done" => plan_ranges = << <<0, n>> >>

\* the whole of a source of several trajectories in one range
C13_Witness ==
    /\ plan_pc = "done"
    /\ RatEq(plan_input.percentage, Rat(100, 1))
    /\ plan_input.n_traj >= 2
    /\ plan_ranges = << <<0, plan_input.n_traj>> >>

(***************************************************************************)
(* C14  The k-th fragment written in a run of N goes to                     *)
(* <prefix>_fragment_<k>_of_<N>.nc, k and N zero-padded to three digits,    *)
(* and carries fragment_number = k, total_fragments = N,                    *)
(* fragment_trajectory_start = (k-1) * per_fragment,                        *)
(* fragment_trajectory_end = min(k * per_fragment, n), end - start being    *)
(* the fragment's trajectory size, original_file = the base name of the     *)
(* input, and the tag of the producing tool.                                *)
(***************************************************************************)
\* a number below 1000 in three decimal digits
ThreeDigits(k) ==
    << DigitChar(k \div 100), DigitChar((k \div 10) % 10), DigitChar(k % 10) >>

C14_PathAndProvenance ==
    \A k \in 1..Len(output_files) :
        LET f == output_files[k]
            n == source.sizes.trajectory
            first == (k - 1) * plan.per_fragment
            last == IF k * plan.per_fragment < n THEN k * plan.per_fragment
                    ELSE n
        IN  /\ f = args.output_prefix \o <<"_fragment_">> \o ThreeDigits(k)
                     \o <<"_of_">> \o ThreeDigits(plan.total) \o <<".nc">>
            /\ f \in DOMAIN files
            /\ files[f].attrs.fragment_number = k
            /\ files[f].attrs.total_fragments = plan.total
            /\ files[f].attrs.fragment_trajectory_start = first
            /\ files[f].attrs.fragment_trajectory_end = last
            /\ files[f].sizes.trajectory = last - first
            /\ files[f].attrs.original_file = <<"data", ".nc">>
            /\ files[f].attrs.modified_by = "fragment_with_sediment.py"

\* a completed run whose fragment numbers have one, two and three digits
C14_Witness ==
    /\ pc = "done"
    /\ outcome = "completed"
    /\ Len(output_files) >= 100
    /\ DOMAIN files = { output_files[k] : k \in 1..Len(output_files) }

(***************************************************************************)
(* C15  A failure while fragment k is sliced, synthesized, annotated or     *)
(* written stops the run: no later fragment is attempted, the fragments     *)
(* 1..k-1 written before stay on disk as they were written, and the run     *)
(* ends with the error, create_fragments returning no list of paths.        *)
(***************************************************************************)
LoopFailed == outcome = "IOFailure"

C15_FailureStopsTheRun ==
    /\ [](LoopFailed =>
            /\ pc = "done"
            /\ returned = <<>>
            /\ i < plan.total
            /\ writes = i
            /\ Len(output_files) = i
            /\ \A k \in 1..i :
                  /\ output_files[k] \in DOMAIN files
                  /\ files[output_files[k]].attrs.fragment_number = k
                  /\ files[output_files[k]].rows[1] = (k - 1) * plan.per_fragment)
    /\ [][(~LoopFailed /\ LoopFailed') =>
             /\ i' = i
             /\ writes' = writes
             /\ \A k \in 1..i : files'[output_files[k]] = files[output_files[k]]
         ]_vars
    /\ [][~LoopFailed]_vars

\* a run that failed on a fragment after writing one, with fragments to go
C15_Witness ==
    /\ LoopFailed
    /\ writes >= 1
    /\ i + 1 < plan.total

(***************************************************************************)
(* C20  Within a run the fragments are processed one at a time in           *)
(* ascending order: each is sliced, synthesized, annotated and written in   *)
(* that order, and the write of fragment k has completed before the slice   *)
(* of fragment k+1 begins; a run that completes returns exactly             *)
(* num_fragments paths in ascending fragment order, the source closed.      *)
(***************************************************************************)
InLoop ==
    pc \in {"create_slice", "create_synthesize", "create_annotate",
            "create_write"}

\* the step after each step of the loop body, a failure apart
StepsInOrder ==
    /\ pc = "create_slice" =>
          pc' \in {"create_synthesize", "done"} /\ i' = i /\ writes' = writes
    /\ pc = "create_synthesize" =>
          pc' \in {"create_annotate", "done"} /\ i' = i /\ writes' = writes
    /\ pc = "create_annotate" =>
          pc' \in {"create_write", "done"} /\ i' = i /\ writes' = writes
    /\ pc = "create_write" =>
          \/ pc' = "done" /\ i' = i /\ writes' = writes
          \/ /\ i' = i + 1
             /\ writes' = writes + 1
             /\ pc' = IF i' < plan.total THEN "create_slice"
                      ELSE "create_close"
    /\ pc' = "create_slice" =>
          \/ pc = "create_plan" /\ i' = 0 /\ writes' = 0
          \/ pc = "create_write" /\ writes' = i'
    /\ pc' = "create_close" => pc \in {"create_plan", "create_write"}

C20_OneFragmentAtATime ==
    /\ [](InLoop =>
            /\ i < plan.total
            /\ writes = i
            /\ Len(output_files) = i
            /\ outcome = "running")
    /\ [](outcome = "completed" =>
            /\ pc = "done"
            /\ closes = opens
            /\ writes = plan.total
            /\ Len(returned) = plan.total
            /\ \A k \in 1..Len(returned) :
                  /\ returned[k] \in DOMAIN files
                  /\ files[returned[k]].attrs.fragment_number = k
                  /\ files[returned[k]].rows[1] = (k - 1) * plan.per_fragment)
    /\ [][StepsInOrder]_vars

\* a completed run of several fragments
C20_Witness ==
    /\ outcome = "completed"
    /\ Len(returned) >= 3
    /\ closes = opens
    /\ files[returned[3]].attrs.fragment_number = 3

(***************************************************************************)
(* Properties of a validator run (SpecValidate).                            *)
(***************************************************************************)
\* the run opened the dataset and went through its checks to the end
Validated == val_pc \in {"return", "exited"} /\ val_opened = 1

Entries(category) ==
    { val_result[category][k] : k \in 1..Len(val_result[category]) }

(***************************************************************************)
(* C16  The absence of any one of the seven derived variables is reported   *)
(* in the category missing, never in the category error, so that            *)
(* has_all_required() is false whenever one of the seven is absent.         *)
(***************************************************************************)
C16_AbsentDerivedIsMissing ==
    (Validated /\ "SedimentDrift Variables" \notin val_file.faults) =>
        \A v \in DerivedVariables \ DOMAIN val_file.ds.variables :
            /\ <<"MISSING", "not present", v>> \in Entries("missing")
            /\ <<"ERROR", "not present", v>> \notin Entries("errors")
            /\ ~has_all_required(val_result)

(***************************************************************************)
(* C17  The validator exits with status 0 if and only if its final report   *)
(* holds no error and no missing entry, the report's errors and missing     *)
(* entries being those of every check that ran; warnings and info entries   *)
(* do not change the exit status.                                           *)
(***************************************************************************)
RECURSIVE CountOf(_, _)
CountOf(results, category) ==
    IF results = <<>> THEN 0
    ELSE Len(Head(results)[category]) + CountOf(Tail(results), category)

EntriesOf(results, category) ==
    UNION { { results[c][category][k] : k \in 1..Len(results[c][category]) } :
            c \in 1..Len(results) }

C17_ExitZeroIffCleanReport ==
    (val_pc = "exited" /\ Len(val_argv) >= 2) =>
        /\ val_exit \in {0, 1}
        /\ val_exit = 0 <=>
              (Len(val_result.errors) = 0 /\ Len(val_result.missing) = 0)
        /\ val_summary = << val_result >>
        /\ Validated =>
              /\ Entries("missing") = EntriesOf(val_checks, "missing")
              /\ Len(val_result.missing) = CountOf(val_checks, "missing")
              /\ Entries("errors") =
                    EntriesOf(val_checks, "errors") \cup
                    { <<"ERROR", "Validation check failed", val_raised[k]>> :
                        k \in 1..Len(val_raised) }
              /\ Len(val_result.errors) =
                    CountOf(val_checks, "errors") + Len(val_raised)

\* status 0 with warnings and info entries in the report
C17_Witness ==
    /\ val_pc = "exited"
    /\ Validated
    /\ val_exit = 0
    /\ Len(val_result.warnings) >= 2
    /\ Len(val_result.info) >= 2

(***************************************************************************)
(* C18  Once the dataset is open, validate_dataset runs the five checks in  *)
(* their order whatever earlier checks found; a check that raises adds      *)
(* exactly one error entry to the overall report, the checks after it       *)
(* still run, the dataset is closed and the summary is produced.            *)
(***************************************************************************)
\* the number of entries of the report's errors equal to e
Occurrences(e) ==
    Cardinality({ k \in 1..Len(val_result.errors) : val_result.errors[k] = e })

C18_AllChecksRun ==
    /\ (val_opened = 1 /\ val_pc \in {"checks", "close"}) =>
          /\ val_ran = SubSeq(checks, 1, val_i)
          /\ Len(val_checks) + Len(val_raised) = val_i
          /\ Len(overall_result.errors) =
                CountOf(val_checks, "errors") + Len(val_raised)
          /\ val_pc = "close" <=> val_i = 5
    /\ Validated =>
          /\ val_ran =
                << "Dimensions", "SedimentDrift Variables",
                   "Trajectory Variables", "Attributes", "Data Integrity" >>
          /\ { val_raised[k] : k \in 1..Len(val_raised) } = val_file.faults
          /\ \A c \in 1..5 :
                Occurrences(<<"ERROR", "Validation check failed", checks[c]>>)
                   = IF checks[c] \in val_file.faults THEN 1 ELSE 0
          /\ Len(val_checks) = 5 - Cardinality(val_file.faults)
          /\ val_closed = 1
          /\ val_summary = << val_result >>
          /\ val_result = overall_result

\* the second check raised after the first had found errors, and the three
\* after it returned
C18_Witness ==
    /\ val_pc = "exited"
    /\ val_raised = << "SedimentDrift Variables" >>
    /\ Len(val_checks) = 4
    /\ Len(val_checks[1].errors) >= 1
    /\ val_closed = 1

(***************************************************************************)
(* C19  In the data-integrity check, for every sample it can draw (at most  *)
(* 100 trajectory indices and at most 100 time indices, all the indices of  *)
(* a dimension of at most 100 elements), a sampled longitude outside        *)
(* [-180, 180] or latitude outside [-90, 90] adds a warning and never an    *)
(* error or a missing entry; so a dataset without particulate_diameter and  *)
(* settled whose sampled longitudes include -200 ends with both variables   *)
(* missing, a longitude warning, is_valid() true, has_all_required() false  *)
(* and a failure exit status.                                               *)
(***************************************************************************)
\* the data-integrity check sampled the data and returned
Sampled ==
    /\ Validated
    /\ ~val_opts.quick
    /\ "Data Integrity" \notin val_file.faults

\* a number sampled from the variable lies outside [lo, hi]
SampledOutside(name, lo, hi) ==
    /\ name \in DOMAIN val_file.ds.variables
    /\ \E t \in val_sample.trajectory, k \in val_sample.time :
          LET x == ValueAt(val_file.ds.variables[name], t, k)
          IN  ~x.nan /\ (x.v < lo \/ x.v > hi)

FullOrHundred(indices, n) ==
    /\ indices \subseteq 0..(n - 1)
    /\ Cardinality(indices) = IF n <= 100 THEN n ELSE 100

C19_OutOfRangeIsWarning ==
    Sampled =>
        LET integrity == val_checks[Len(val_checks)]
            warned(name) ==
                \E k \in 1..Len(integrity.warnings) :
                    integrity.warnings[k] =
                        <<"WARNING", "Sample values outside valid range", name>>
        IN  /\ FullOrHundred(val_sample.trajectory,
                             sizes_get(val_file.ds, "trajectory"))
            /\ FullOrHundred(val_sample.time, sizes_get(val_file.ds, "time"))
            /\ integrity.errors = <<>>
            /\ integrity.missing = <<>>
            /\ SampledOutside("lon", -180, 180) <=> warned("lon")
            /\ SampledOutside("lat", -90, 90) <=> warned("lat")
            /\ ( /\ DerivedVariables \ DOMAIN val_file.ds.variables
                       = {"particulate_diameter", "settled"}
                 /\ SampledOutside("lon", -180, 180)
                 /\ val_file.faults = {} ) =>
                  /\ <<"MISSING", "not present", "particulate_diameter">>
                        \in Entries("missing")
                  /\ <<"MISSING", "not present", "settled">> \in Entries("missing")
                  /\ Len(val_result.missing) = 2
                  /\ <<"WARNING", "Sample values outside valid range", "lon">>
                        \in Entries("warnings")
                  /\ Len(val_result.errors) = 0
                  /\ val_pc = "exited" => val_exit = 1

\* the scenario on a dataset of more trajectories than are sampled, the
\* cell holding -200 among those drawn
C19_Witness ==
    /\ Sampled
    /\ val_pc = "exited"
    /\ sizes_get(val_file.ds, "trajectory") > 100
    /\ Cardinality(val_sample.trajectory) = 100
    /\ DerivedVariables \ DOMAIN val_file.ds.variables
          = {"particulate_diameter", "settled"}
    /\ SampledOutside("lon", -180, 180)
    /\ Len(val_result.errors) = 0
    /\ val_exit = 1

(***************************************************************************)
(* C21  Within one run the output paths of distinct fragments are pairwise  *)
(* distinct for every number of fragments, counts of 1000 and more, whose   *)
(* numbers no longer fit in three digits, included; so no fragment written  *)
(* in a run overwrites another fragment of the same run.                    *)
(***************************************************************************)
C21_PathsPairwiseDistinct ==
    /\ [][plan_paths' # plan_paths =>
             /\ Len(plan_paths') = Len(plan_paths) + 1
             /\ \A k \in 1..Len(plan_paths) :
                   /\ plan_paths'[k] = plan_paths[k]
                   /\ plan_paths[k] # plan_paths'[Len(plan_paths')]
         ]_vars
    /\ [](plan_pc = "done" =>
            /\ Len(plan_paths) = plan_made.total
            /\ Cardinality({ plan_paths[k] : k \in 1..Len(plan_paths) })
                  = plan_made.total)

\* a finished loop of 1000 fragments or more, the path of fragment 1000 one
\* digit longer than the path of fragment 999
C21_Witness ==
    /\ plan_pc = "done"
    /\ plan_made.total >= 1000
    /\ Len(plan_paths) = plan_made.total
    /\ Len(plan_paths[1000]) = Len(plan_paths[999]) + 1

====
